---- MODULE Spec2Model ----
(***************************************************************************)
(* PipelineManager (src/pipeline_manager/pipeline_manager_new.py): the     *)
(* resource planner run by the constructor (prepare_multiprocess), the     *)
(* validation pass (test, test_dataset_reader_and_iterator) and the        *)
(* dispatcher (run, gpu_gen, train_pipe).                                  *)
(*                                                                         *)
(* Python's None is the empty tuple and a present value v is <<v>>.        *)
(* A Python list of device ids is a sequence; a list built by              *)
(* list(set(a) & set(b)) has an order the language does not fix, so any    *)
(* order is possible.  The value of CUDA_VISIBLE_DEVICES is None (unset)   *)
(* or <<S>> with S the set of ids it lists ("" is <<{}>>).                 *)
(***************************************************************************)
EXTENDS Integers, Sequences, FiniteSets, TLC

\* ------------------------------------------------------------------ bounds
MaxGpu == 3        \* device ids are 0 .. MaxGpu-1, gpu_num is 0 .. MaxGpu
MaxCpu == 3        \* cpu_num is 1 .. MaxCpu
MaxCap == 3        \* a configured max_num_workers is 0 .. MaxCap
MaxPipes == 2      \* the pipeline generator yields 1 .. MaxPipes configs
MaxData == 1       \* a split read by read_data_by_config has 0 .. MaxData samples

\* ------------------------------------------------------- program constants
TrainKeepAll == 100   \* a train split of at most this many samples is kept whole
TinyTrain == 10       \* otherwise its first TinyTrain samples are kept
ValidKeepAll == 20
TinyValid == 5
TestKeepAll == 20
TinyTest == 5

Splits == { "train", "valid", "test" }
\* sizes of the splits an iterator holds: around each threshold and each ceiling
SplitSizes == { 0, 3, 20, 21, 26, 100, 101 }

Devices == 0 .. (MaxGpu - 1)

\* the first entry of pipe['train']['metrics'], as a name (lines 223-226)
Metrics == { "accuracy", "f1" }

\* ----------------------------------------------------------------- helpers
None == << >>
Some(v) == << v >>
Val(o) == o[1]

Range(s) == { s[k] : k \in 1 .. Len(s) }

\* every ordering of the finite set S, as a sequence without repetition
Perms(S) ==
  { s \in [1 .. Cardinality(S) -> S] : \A a, b \in 1 .. Cardinality(S) : s[a] = s[b] => a = b }

\* every sequence of k distinct elements of S
Arrangements(S, k) ==
  { s \in [1 .. k -> S] : \A a, b \in 1 .. k : s[a] = s[b] => a = b }

\* Python truthiness of an optional list: None and [] are false
Truthy(o) == o # None /\ Val(o) # {}

VARIABLES
  \* exp_config['enumerate']: the 'max_num_workers' and 'use_multi_gpus' entries as
  \* configured (the attributes read from them below are overwritten by the planner)
  exp_config,
  \* the attributes __init__ reads from the configuration
  multiprocessing, max_num_workers_, use_all_gpus, use_multi_gpus, do_test,
  target_metric,
  \* the machine: psutil.cpu_count(), get_num_gpu(), the devices with enough free
  \* memory, and os.environ['CUDA_VISIBLE_DEVICES'] of the parent process
  cpu_num, gpu_num, free_gpus, environ,
  \* prepare_multiprocess: its local visible_gpu, the list get_available_gpus
  \* returned to it, and the plan it leaves in self
  visible_gpu, found_gpu, max_num_workers, available_gpu,
  \* test(): dataset_composition (None until line 125), len_gen, the index i of
  \* the loop at line 328, and in test_dataset_reader_and_iterator the sizes of
  \* the splits of data (line 340), of iterator.data as built (line 351) and of
  \* iterator.data as rebuilt at lines 391-394
  dataset_composition, len_gen, test_i, data, iter_raw, iter_tiny,
  \* run(): gen_len, the configs that make the training engine raise, how many
  \* configs the generator has yielded, how many tasks the pool has handed to
  \* its workers, each worker process's current task and its own
  \* CUDA_VISIBLE_DEVICES, the results waiting for the parent, how many it has
  \* collected, and the trial records the observer has written
  gen_len, bad, generated, next_i, workers, results, collected, log,
  \* the target metric in the log of the parent's observer (each worker record
  \* holds the one of the observer copy its task was sent with), and the trials
  \* that have assigned a target metric at line 224/226
  obs_target, derived,
  \* where the program is, the exception that ended __init__ or run ("" if
  \* none) and the source line that raised it (0 if none)
  pc, error, raised_at

cfgVars == << exp_config, multiprocessing, use_all_gpus, do_test, target_metric,
              cpu_num, gpu_num, free_gpus >>
planVars == << max_num_workers_, use_multi_gpus, environ, visible_gpu, found_gpu,
               max_num_workers, available_gpu >>
testVars == << dataset_composition, len_gen, test_i, data, iter_raw, iter_tiny >>
runVars == << gen_len, bad, generated, next_i, workers, results, collected, log,
             obs_target, derived >>
vars == << cfgVars, planVars, testVars, runVars, pc, error, raised_at >>

\* --------------------------------------------------------- device discovery
\* get_available_gpus(num_gpus, gpu_select, gpu_fraction): the free devices,
\* restricted to gpu_select when given, at most num_gpus of them when given.
GetAvailableGpus(num_gpus, gpu_select) ==
  LET cand == IF gpu_select = None THEN free_gpus ELSE free_gpus \cap Val(gpu_select)
      k == IF num_gpus = None \/ Val(num_gpus) > Cardinality(cand)
           THEN Cardinality(cand) ELSE Val(num_gpus)
  IN Arrangements(cand, k)

\* ------------------------------------------------------------------- planner
\* int(cpu_num * 0.7): equal to floor(7 * cpu_num / 10) for every cpu_num < 90
\* (the first cpu_num where the float product rounds below is 90)
IntCpuShare(cpu) == (7 * cpu) \div 10

\* WorkersNoCap without the CPU headroom: one worker per free device
WorkersNoCapIgnoringCpu(cpu, n) == n

\* lines 154-157
WorkersNoCap(cpu, n) == IF IntCpuShare(cpu) > n THEN n ELSE IntCpuShare(cpu)

\* lines 145-146, 162-163, 170-171: list(set(available_gpu) & set(visible_gpu))
RestrictToVisible(found, visible) ==
  IF Cardinality(visible) # 0 THEN Perms(Range(found) \cap visible) ELSE { found }

\* WorkersCapAbove without the clipping: the cap is kept as configured
WorkersCapAboveUnclipped(cap, total) == cap

\* line 160
WorkersCapAbove(cap, total) == total

\* WorkersCapBelow taking the cap instead of the number of devices found
WorkersCapBelowAsCap(cap, ag) == cap

\* line 176
WorkersCapBelow(cap, ag) == Len(ag)

\* lines 192-198
WorkersMultiGpu(cap, ag) ==
  IF cap = None \/ Val(cap) = 0 THEN Len(ag)
  ELSE IF Val(cap) > Len(ag) THEN Len(ag) ELSE Val(cap)

\* DevicesMultiGpu slicing from the end: available_gpu[-max_num_workers_:]
DevicesMultiGpuFromEnd(cap, ag) ==
  IF cap = None \/ Val(cap) = 0 THEN ag
  ELSE IF Val(cap) > Len(ag) THEN ag ELSE SubSeq(ag, Len(ag) - Val(cap) + 1, Len(ag))

\* lines 192-199: available_gpu[0:max_num_workers_] when the cap does not exceed it
DevicesMultiGpu(cap, ag) ==
  IF cap = None \/ Val(cap) = 0 THEN ag
  ELSE IF Val(cap) > Len(ag) THEN ag ELSE SubSeq(ag, 1, Val(cap))

\* lines 179-180
ExplicitVisible(explicit, visible) ==
  IF Cardinality(visible) # 0 THEN explicit \cap visible ELSE explicit

\* an exception of the given kind, raised at the given source line, leaves __init__
PlanRaise(kind, line) ==
  /\ pc' = "failed"
  /\ error' = kind
  /\ raised_at' = line

\* prepare_multiprocess returns, and __init__ goes on at line 121
PlanReturn ==
  /\ pc' = IF do_test THEN "test" ELSE "ready"
  /\ UNCHANGED << error, raised_at >>

\* lines 143-157
AllGpusNoCap ==
  \E found \in GetAvailableGpus(None, None) :
    \E ag \in RestrictToVisible(found, Val(visible_gpu')) :
      /\ found_gpu' = Some(found)
      /\ available_gpu' = Some(ag)
      /\ UNCHANGED << max_num_workers_, use_multi_gpus >>
      /\ IF Len(ag) = 0
           THEN PlanRaise("ValueError", 149) /\ UNCHANGED max_num_workers
           ELSE PlanReturn /\ max_num_workers' = Some(WorkersNoCap(cpu_num, Len(ag)))

\* lines 159-166
AllGpusCapAbove ==
  \E found \in GetAvailableGpus(None, None) :
    \E ag \in RestrictToVisible(found, Val(visible_gpu')) :
      /\ max_num_workers' = Some(WorkersCapAbove(Val(max_num_workers_), gpu_num))
      /\ found_gpu' = Some(found)
      /\ available_gpu' = Some(ag)
      /\ UNCHANGED << max_num_workers_, use_multi_gpus >>
      /\ IF Len(ag) = 0 THEN PlanRaise("ValueError", 166) ELSE PlanReturn

\* lines 167-176
AllGpusCapBelow ==
  \E found \in GetAvailableGpus(max_num_workers_, None) :
    \E ag \in RestrictToVisible(found, Val(visible_gpu')) :
      /\ found_gpu' = Some(found)
      /\ available_gpu' = Some(ag)
      /\ UNCHANGED << max_num_workers_, use_multi_gpus >>
      /\ IF Len(ag) = 0
           THEN PlanRaise("ValueError", 174) /\ UNCHANGED max_num_workers
           ELSE PlanReturn
                /\ max_num_workers' = Some(WorkersCapBelow(Val(max_num_workers_), ag))

\* lines 178-199
MultiGpus ==
  LET explicit == ExplicitVisible(Val(use_multi_gpus), Val(visible_gpu'))
  IN /\ use_multi_gpus' = Some(explicit)
     /\ UNCHANGED max_num_workers_
     /\ IF Cardinality(explicit) = 0
          THEN /\ PlanRaise("ValueError", 183)
               /\ UNCHANGED << found_gpu, max_num_workers, available_gpu >>
          ELSE \E ag \in GetAvailableGpus(None, Some(explicit)) :
                 /\ found_gpu' = Some(ag)
                 /\ IF Len(ag) = 0
                      THEN /\ PlanRaise("ValueError", 189)
                           /\ available_gpu' = Some(ag)
                           /\ UNCHANGED max_num_workers
                      ELSE /\ PlanReturn
                           /\ max_num_workers' = Some(WorkersMultiGpu(max_num_workers_, ag))
                           /\ available_gpu' = Some(DevicesMultiGpu(max_num_workers_, ag))

\* lines 201-208 without the clip of lines 202-207
CpuOnlyUnclipped ==
  /\ max_num_workers' = max_num_workers_
  /\ UNCHANGED << max_num_workers_, use_multi_gpus, found_gpu, available_gpu >>
  /\ PlanReturn

\* lines 201-208
CpuOnly ==
  /\ max_num_workers_' =
       IF max_num_workers_ # None /\ Val(max_num_workers_) > cpu_num
       THEN Some(cpu_num) ELSE max_num_workers_
  /\ max_num_workers' = max_num_workers_'
  /\ UNCHANGED << use_multi_gpus, found_gpu, available_gpu >>
  /\ PlanReturn

\* lines 128-208
prepare_multiprocess ==
  IF environ = Some({})
    THEN \* line 133: int('') raises ValueError, which line 135 does not catch
         /\ PlanRaise("ValueError", 133)
         /\ UNCHANGED planVars
    ELSE /\ visible_gpu' = IF environ = None THEN Some({}) ELSE environ
         /\ environ' = IF environ = None THEN None ELSE Some({})
         /\ IF max_num_workers_ # None /\ Val(max_num_workers_) < 1
              THEN /\ PlanRaise("ConfigError", 139)
                   /\ UNCHANGED << max_num_workers_, use_multi_gpus, found_gpu,
                                   max_num_workers, available_gpu >>
              ELSE IF use_all_gpus
                THEN IF max_num_workers_ = None
                       THEN AllGpusNoCap
                       ELSE IF Val(max_num_workers_) > gpu_num
                              THEN AllGpusCapAbove
                              ELSE AllGpusCapBelow
                ELSE IF Truthy(use_multi_gpus)
                       THEN MultiGpus
                       ELSE CpuOnly

\* __init__, lines 77-119 (lines 124-126, the validation pass, follow in "testing")
Construct ==
  /\ pc = "new"
  /\ UNCHANGED << cfgVars, testVars, runVars >>
  /\ IF Truthy(use_multi_gpus) /\ use_all_gpus
       THEN \* lines 113-114
            /\ PlanRaise("ValueError", 114)
            /\ UNCHANGED planVars
       ELSE IF multiprocessing
              THEN prepare_multiprocess
              ELSE PlanReturn /\ UNCHANGED planVars

\* ---------------------------------------------------------- validation pass
\* an exception in test() that is recorded while the pass goes on to read
TestRaiseIsolated(kind, line) ==
  /\ pc' = "read"
  /\ error' = kind
  /\ raised_at' = line

\* an exception raised inside test() leaves __init__
TestRaise(kind, line) ==
  /\ pc' = "failed"
  /\ error' = kind
  /\ raised_at' = line

\* lines 124-127 and 323-327: the baseline is all False, the generator is built
TestStart ==
  /\ pc = "test"
  /\ dataset_composition' = Some([s \in Splits |-> FALSE])
  /\ \E n \in 1 .. MaxPipes : len_gen' = n
  /\ test_i' = 0
  /\ pc' = "read"
  /\ UNCHANGED << cfgVars, planVars, runVars, data, iter_raw, iter_tiny,
                  error, raised_at >>

\* lines 342-344: the splits that are non-empty in the first trial
RecordComposition(comp, d) == [s \in Splits |-> IF d[s] # 0 THEN TRUE ELSE comp[s]]

\* CompositionMismatch with the comparison the other way round: a split that
\* was empty at index 0 and is not empty now
CompositionMismatchGrown(comp, d) == \E s \in Splits : d[s] # 0 /\ ~comp[s]

\* lines 346-347: some split is empty now and was not at index 0
CompositionMismatch(comp, d) == \E s \in Splits : d[s] = 0 /\ comp[s]

\* lines 340-349: read_data_by_config and the composition check of trial test_i
TestRead ==
  /\ pc = "read"
  /\ \E d \in [Splits -> 0 .. MaxData] :
       /\ data' = Some(d)
       /\ IF test_i = 0
            THEN /\ dataset_composition' =
                      Some(RecordComposition(Val(dataset_composition), d))
                 /\ pc' = "iterate"
                 /\ UNCHANGED << error, raised_at >>
            ELSE /\ UNCHANGED dataset_composition
                 /\ IF CompositionMismatch(Val(dataset_composition), d)
                      THEN TestRaise("ConfigError", 348)
                      ELSE pc' = "iterate" /\ UNCHANGED << error, raised_at >>
  /\ UNCHANGED << cfgVars, planVars, runVars, len_gen, test_i, iter_raw, iter_tiny >>

\* a split over keep_all cut by its first `tiny` samples ([tiny:] for [:tiny])
TinySplitTail(n, keep_all, tiny) == IF n <= keep_all THEN n ELSE n - tiny

\* a split cut to its first `tiny` samples whenever it has more than `tiny`
TinySplitAtCeiling(n, keep_all, tiny) == IF n <= tiny THEN n ELSE tiny

\* lines 371-376, 379-382, 385-388: a split of at most keep_all samples is kept
\* whole, a larger one is cut to its first `tiny` samples
TinySplit(n, keep_all, tiny) == IF n <= keep_all THEN n ELSE tiny

\* lines 370-394
TinyData(raw) ==
  LET tiny_train == TinySplit(raw["train"], TrainKeepAll, TinyTrain)
      tiny_valid == TinySplit(raw["valid"], ValidKeepAll, TinyValid)
      tiny_test == TinySplit(raw["test"], TestKeepAll, TinyTest)
  IN [train |-> tiny_train, valid |-> tiny_valid, test |-> tiny_test,
      all |-> tiny_train + tiny_valid + tiny_test]

\* lines 352-368: the line that raises ConfigError for this iterator and this
\* 'train' section of the config, 0 if none does
IteratorCheck(fitting, train, raw) ==
  IF fitting THEN 353
  ELSE IF train.present
    THEN IF train.test_best /\ raw["test"] = 0 THEN 357
         ELSE IF (train.validate_best \/ train.val_every_n_epochs) /\ raw["valid"] = 0
                THEN 362 ELSE 0
    ELSE IF raw["test"] = 0 THEN 366 ELSE 0

\* the 'train' section of a generated config, as far as lines 355-360 read it:
\* present or not, test_best, validate_best, val_every_n_epochs > 0
TrainSections ==
  [present : BOOLEAN, test_best : BOOLEAN, validate_best : BOOLEAN,
   val_every_n_epochs : BOOLEAN]

\* lines 351-394: get_iterator_from_config, the checks and the truncation
TestIterate ==
  /\ pc = "iterate"
  /\ \E fitting \in BOOLEAN, train \in TrainSections, raw \in [Splits -> SplitSizes] :
       /\ iter_raw' = Some(raw)
       /\ IF IteratorCheck(fitting, train, raw) # 0
            THEN /\ TestRaise("ConfigError", IteratorCheck(fitting, train, raw))
                 /\ UNCHANGED iter_tiny
            ELSE /\ iter_tiny' = Some(TinyData(raw))
                 /\ pc' = "train"
                 /\ UNCHANGED << error, raised_at >>
  /\ UNCHANGED << cfgVars, planVars, runVars, dataset_composition, len_gen,
                  test_i, data >>

\* lines 328-336: the training engine runs the trial on the tiny iterator and the
\* loop goes on to the next config, the data and the iterator of this one being
\* dropped; after the last trial the temporary files are removed and __init__
\* returns
TestTrain ==
  /\ pc = "train"
  /\ \E engine_ok \in BOOLEAN :
       IF engine_ok
         THEN /\ test_i' = test_i + 1
              /\ pc' = IF test_i + 1 = len_gen THEN "ready" ELSE "read"
              /\ data' = None
              /\ iter_raw' = None
              /\ iter_tiny' = None
              /\ UNCHANGED << error, raised_at >>
         ELSE /\ TestRaise("EngineError", 330)
              /\ UNCHANGED << test_i, data, iter_raw, iter_tiny >>
  /\ UNCHANGED << cfgVars, planVars, runVars, dataset_composition, len_gen >>

\* ---------------------------------------------------------------- dispatcher
\* an exception of the given kind, raised at the given source line, leaves run()
RunRaise(kind, line) ==
  /\ pc' = "run_failed"
  /\ error' = kind
  /\ raised_at' = line

\* lines 263 and 300: i - (i // d) * d
GpuInd(i, d) == i - (i \div d) * d

\* train_pipe, lines 214-217: the CUDA_VISIBLE_DEVICES the executing process gets
BindDevice(gpu, gpu_ind) == IF gpu THEN Some({ gpu_ind }) ELSE Some({})

\* the arguments gpu and gpu_ind that lines 264/267 and 297-301 give trial i
TrialGpu == available_gpu # None
TrialGpuInd(i) == IF TrialGpu THEN GpuInd(i, Len(Val(available_gpu))) ELSE 0

\* log['experiment_info']['target_metric'] of a newly made Observer
NewObserverTarget == None

\* lines 219-226: the target metric the observer's log holds after them, for
\* the declared target, the one the log held before, and the trial's first metric
DeriveTarget(declared, logged, first_metric) ==
  IF declared = None /\ logged = None THEN Some(first_metric) ELSE logged

\* Pool(self.max_num_workers): os.cpu_count() processes for None
PoolSize == IF max_num_workers = None THEN cpu_num ELSE Val(max_num_workers)

\* lines 274-292: the generator is built; in parallel mode the pool is created,
\* its workers inheriting the parent's environment, and the list comprehension
\* at line 286/291 takes every config from the generator before imap_unordered
\* gets the list
RunStart ==
  /\ pc = "ready"
  /\ \E n \in 1 .. MaxPipes :
       /\ gen_len' = n
       /\ \E b \in SUBSET (0 .. (n - 1)) : bad' = b
       /\ IF multiprocessing
            THEN IF PoolSize < 1
                   THEN \* Pool raises ValueError: the number of processes must be at least 1
                        /\ RunRaise("ValueError", 283)
                        /\ UNCHANGED << generated, workers >>
                   ELSE /\ workers' = [w \in 1 .. PoolSize |->
                                         [task |-> None, env |-> environ, target |-> None]]
                        /\ generated' = n
                        /\ pc' = "pool"
                        /\ UNCHANGED << error, raised_at >>
            ELSE /\ pc' = "loop"
                 /\ UNCHANGED << generated, workers, error, raised_at >>
  /\ UNCHANGED << cfgVars, planVars, testVars, next_i, results, collected, log,
                  obs_target, derived >>

\* lines 296-301 with train_pipe, lines 212-258: one iteration of the sequential
\* loop. Nothing catches what the training engine raises at line 245.
SeqTrial ==
  /\ pc = "loop"
  /\ generated < gen_len
  /\ generated' = generated + 1
  /\ environ' = BindDevice(TrialGpu, TrialGpuInd(generated))
  /\ \E first_metric \in Metrics :
       obs_target' = DeriveTarget(target_metric, obs_target, first_metric)
  /\ derived' = IF obs_target' # obs_target THEN derived \cup { generated } ELSE derived
  /\ IF generated \in bad
       THEN RunRaise("EngineError", 245) /\ UNCHANGED log
       ELSE /\ log' = Append(log, generated)
            /\ pc' = IF generated + 1 = gen_len THEN "finish" ELSE "loop"
            /\ UNCHANGED << error, raised_at >>
  /\ UNCHANGED << cfgVars, testVars, max_num_workers_, use_multi_gpus, visible_gpu,
                  found_gpu, max_num_workers, available_gpu,
                  gen_len, bad, next_i, workers, results, collected >>

\* a pool worker takes the next task of the list, with the copy of the parent's
\* observer that was pickled into it, and enters train_pipe, lines 212-226. The
\* pool outlives an exception in the parent until it is collected.
WorkerTake(w) ==
  /\ pc \in { "pool", "run_failed" }
  /\ w \in DOMAIN workers
  /\ workers[w].task = None
  /\ next_i < gen_len
  /\ next_i' = next_i + 1
  /\ \E first_metric \in Metrics :
       workers' = [workers EXCEPT ![w] =
                     [task |-> Some(next_i),
                      env |-> BindDevice(TrialGpu, TrialGpuInd(next_i)),
                      target |-> DeriveTarget(target_metric, obs_target, first_metric)]]
  /\ derived' = IF workers'[w].target # obs_target
                  THEN derived \cup { next_i } ELSE derived
  /\ UNCHANGED << cfgVars, planVars, testVars, gen_len, bad, generated, results,
                  collected, log, obs_target, pc, error, raised_at >>

\* train_pipe, lines 228-258, in a worker: the engine returns and the record is
\* written, or it raises and the pool hands the exception to the parent; the
\* task's observer copy goes with the task
WorkerFinish(w) ==
  /\ pc \in { "pool", "run_failed" }
  /\ w \in DOMAIN workers
  /\ workers[w].task # None
  /\ LET i == Val(workers[w].task)
     IN /\ results' = Append(results, [i |-> i, ok |-> i \notin bad])
        /\ log' = IF i \in bad THEN log ELSE Append(log, i)
  /\ workers' = [workers EXCEPT ![w].task = None, ![w].target = None]
  /\ UNCHANGED << cfgVars, planVars, testVars, gen_len, bad, generated, next_i,
                  collected, obs_target, derived, pc, error, raised_at >>

\* lines 286/291: list(tqdm(imap_unordered(...))) takes the next finished result;
\* the result of a task that raised re-raises its exception in the parent
Collect ==
  /\ pc = "pool"
  /\ results # << >>
  /\ results' = Tail(results)
  /\ IF Head(results).ok
       THEN /\ collected' = collected + 1
            /\ UNCHANGED << pc, error, raised_at >>
       ELSE /\ RunRaise("EngineError", IF TrialGpu THEN 291 ELSE 286)
            /\ UNCHANGED collected
  /\ UNCHANGED << cfgVars, planVars, testVars, gen_len, bad, generated, next_i,
                  workers, log, obs_target, derived >>

\* lines 288-289 and 293-294 reached without every result taken (an iterator
\* of results that is not drained by list())
PoolJoinEarly ==
  /\ pc = "pool"
  /\ pc' = "finish"
  /\ UNCHANGED << cfgVars, planVars, testVars, runVars, error, raised_at >>

\* lines 288-289 and 293-294: every result is in, the pool is closed and joined
PoolJoin ==
  /\ pc = "pool"
  /\ collected = gen_len
  /\ pc' = "finish"
  /\ UNCHANGED << cfgVars, planVars, testVars, runVars, error, raised_at >>

\* lines 303-316: full_time, save_best_pipe, results_visualization
Finalize ==
  /\ pc = "finish"
  /\ pc' = "done"
  /\ UNCHANGED << cfgVars, planVars, testVars, runVars, error, raised_at >>

\* --------------------------------------------------------------------- init
OptCaps == { None } \cup { Some(c) : c \in 0 .. MaxCap }
OptDeviceSets == { None } \cup { Some(S) : S \in SUBSET Devices }

Init ==
  /\ exp_config \in [max_num_workers : OptCaps, use_multi_gpus : OptDeviceSets]
  /\ multiprocessing \in BOOLEAN
  /\ max_num_workers_ = exp_config.max_num_workers
  /\ use_all_gpus \in BOOLEAN
  /\ use_multi_gpus = exp_config.use_multi_gpus
  /\ do_test \in BOOLEAN
  /\ target_metric \in { None } \cup { Some(m) : m \in Metrics }
  /\ cpu_num \in 1 .. MaxCpu
  /\ gpu_num \in 0 .. MaxGpu
  /\ free_gpus \in SUBSET (0 .. (gpu_num - 1))
  /\ environ \in OptDeviceSets
  /\ visible_gpu = None
  /\ found_gpu = None
  /\ max_num_workers = None
  /\ available_gpu = None
  /\ dataset_composition = None
  /\ len_gen = 0
  /\ test_i = 0
  /\ data = None
  /\ iter_raw = None
  /\ iter_tiny = None
  /\ gen_len = 0
  /\ bad = {}
  /\ generated = 0
  /\ next_i = 0
  /\ workers = << >>
  /\ results = << >>
  /\ collected = 0
  /\ log = << >>
  /\ obs_target = NewObserverTarget
  /\ derived = {}
  /\ pc = "new"
  /\ error = ""
  /\ raised_at = 0

InitPlan == target_metric = None /\ Init /\ do_test = FALSE

NextPlan == Construct

SpecPlan == InitPlan /\ [][NextPlan]_vars

\* the dispatcher, after a constructor that makes no validation pass and reads
\* no visible-device restriction, on a machine with one CPU or with MaxCpu, with
\* a target metric declared in the config
InitRun ==
  /\ do_test = FALSE
  /\ environ = None
  /\ cpu_num \in { 1, MaxCpu }
  /\ exp_config \in [max_num_workers : OptCaps, use_multi_gpus : { None }]
  /\ target_metric = Some("accuracy")
  /\ Init

NextRun ==
  \/ Construct
  \/ RunStart
  \/ SeqTrial
  \/ \E w \in 1 .. (MaxCpu + MaxGpu) : WorkerTake(w)
  \/ \E w \in 1 .. (MaxCpu + MaxGpu) : WorkerFinish(w)
  \/ Collect
  \/ PoolJoin
  \/ Finalize

SpecRun == InitRun /\ [][NextRun]_vars

\* the dispatcher on a machine without devices, with and without a target
\* metric declared in the config
InitMetric ==
  /\ do_test = FALSE
  /\ environ = None
  /\ use_all_gpus = FALSE
  /\ exp_config \in [max_num_workers : OptCaps, use_multi_gpus : { None }]
  /\ cpu_num \in { 1, MaxCpu }
  /\ gpu_num = 0
  /\ Init

SpecMetric == InitMetric /\ [][NextRun]_vars

\* the validation pass, on its own: a sequential configuration with do_test set
InitTest ==
  /\ do_test = TRUE
  /\ multiprocessing = FALSE
  /\ use_all_gpus = FALSE
  /\ exp_config = [max_num_workers |-> None, use_multi_gpus |-> None]
  /\ environ = None
  /\ cpu_num = 1
  /\ gpu_num = 0
  /\ target_metric = None
  /\ Init

NextTest == Construct \/ TestStart \/ TestRead \/ TestIterate \/ TestTrain

SpecTest == InitTest /\ [][NextTest]_vars

\* the whole program
Next == NextRun \/ TestStart \/ TestRead \/ TestIterate \/ TestTrain

Spec == Init /\ [][Next]_vars

\* the constructor with its validation pass and the run that follows it, for a
\* CPU-only configuration on a machine with one CPU
InitValidate ==
  /\ do_test = TRUE
  /\ use_all_gpus = FALSE
  /\ exp_config = [max_num_workers |-> None, use_multi_gpus |-> None]
  /\ environ = None
  /\ cpu_num = 1
  /\ gpu_num = 0
  /\ target_metric = Some("accuracy")
  /\ Init

SpecValidate == InitValidate /\ [][Next]_vars

\* ------------------------------------------------------------------ claims
\* prepare_multiprocess has returned (it is only called with multiprocessing on)
Planned == multiprocessing /\ pc \notin { "new", "failed" }

\* prepare_multiprocess got past reading CUDA_VISIBLE_DEVICES (lines 132-136)
EnvRead == visible_gpu # None

\* the free devices after the visible-device restriction, when there is one
FreeVisible ==
  IF Val(visible_gpu) = {} THEN free_gpus ELSE free_gpus \cap Val(visible_gpu)

NoDup(s) == \A a, b \in 1 .. Len(s) : s[a] = s[b] => a = b

AllDevicesMode == use_all_gpus /\ ~Truthy(exp_config.use_multi_gpus)
ExplicitMode == ~use_all_gpus /\ Truthy(exp_config.use_multi_gpus)
Cap == exp_config.max_num_workers

\* C1: once prepare_multiprocess has returned, a non-empty device list
\* (available_gpu) has exactly max_num_workers entries, in every mode.
C1_WorkersEqualDevices ==
  (Planned /\ available_gpu # None /\ Len(Val(available_gpu)) > 0)
    => max_num_workers = Some(Len(Val(available_gpu)))

\* C2: a configuration with use_all_gpus and a use_multi_gpus list (an empty one
\* included) never gets past the constructor: it fails with ConfigError and no
\* plan (max_num_workers, available_gpu) is made.
C2_BothStrategiesConfigError ==
  (use_all_gpus /\ exp_config.use_multi_gpus # None /\ pc # "new")
    => /\ pc = "failed"
       /\ error = "ConfigError"
       /\ max_num_workers = None
       /\ available_gpu = None

\* C3: with a planned device list of length d > 0, the process that executes
\* trial i has the device devices[i mod d] in its CUDA_VISIBLE_DEVICES: a pool
\* worker while it holds the trial, the parent after each sequential trial.
C3_RoundRobinDevice ==
  (available_gpu # None /\ Len(Val(available_gpu)) > 0)
    => LET devices == Val(available_gpu)
           Assigned(i) == devices[(i % Len(devices)) + 1]
       IN /\ \A w \in DOMAIN workers :
               workers[w].task # None
                 => workers[w].env = Some({ Assigned(Val(workers[w].task)) })
          /\ (~multiprocessing /\ generated > 0)
               => environ = Some({ Assigned(generated - 1) })

\* the indices 0 .. gen_len-1 outside bad, in generation order
GoodInOrder ==
  LET good == (0 .. (gen_len - 1)) \ bad
  IN CHOOSE s \in [1 .. Cardinality(good) -> good] :
       \A a, b \in 1 .. Cardinality(good) : a < b => s[a] < s[b]

\* C4: a sequential run in which k of the n configs make the engine raise never
\* ends with an exception: it goes through all n configs, reaches the report,
\* and has then logged the n-k other trials, in generation order.
C4_SequentialIsolation ==
  ~multiprocessing
    => /\ pc # "run_failed"
       /\ pc \in { "finish", "done" } => /\ generated = gen_len
                                         /\ log = GoodInOrder

\* C5: in a parallel run the exception of a trial never leaves run(): the run
\* does not end with the engine's exception, whatever the workers do.
C5_ParallelIsolation ==
  multiprocessing => ~(pc = "run_failed" /\ error = "EngineError")

\* C6: the baseline holds exactly the splits that are non-empty in the trial at
\* index 0 and does not change afterwards; a later trial fails the composition
\* check (ConfigError, line 348) exactly when a split of the baseline is empty
\* in it, so a split that was empty at index 0 may be non-empty later.
C6_CompositionCheck ==
  /\ [](/\ (data # None /\ test_i = 0)
             => \A s \in Splits : Val(dataset_composition)[s] <=> Val(data)[s] # 0
        /\ (data # None /\ test_i > 0)
             => ((\E s \in Splits : Val(dataset_composition)[s] /\ Val(data)[s] = 0)
                   <=> (pc = "failed" /\ error = "ConfigError" /\ raised_at = 348)))
  /\ [][(test_i > 0 \/ data # None) => dataset_composition' = dataset_composition]_vars

\* C6 witness: at index 1 the test split of the baseline is empty and the train
\* split, empty at index 0, is not: the check raises
C6_Witness ==
  /\ test_i = 1 /\ data # None
  /\ Val(dataset_composition)["test"] /\ Val(data)["test"] = 0
  /\ ~Val(dataset_composition)["train"] /\ Val(data)["train"] # 0
  /\ pc = "failed" /\ error = "ConfigError" /\ raised_at = 348

\* C7: in all-devices mode with no cap, planning succeeds whenever at least one
\* device is free after the visible-device restriction, and the worker count of
\* a plan is min(f, floor(0.7 * cpu_num)) for f such devices.
C7_NoCapWorkerCount ==
  (EnvRead /\ AllDevicesMode /\ Cap = None)
    => LET f == Cardinality(FreeVisible)
           share == (7 * cpu_num) \div 10
       IN /\ f >= 1 => Planned
          /\ Planned => /\ f >= 1
                        /\ max_num_workers = Some(IF f < share THEN f ELSE share)

\* C7 witness: two free devices and two CPUs, so the CPU share (1) decides
C7_Witness ==
  /\ Planned /\ AllDevicesMode /\ Cap = None
  /\ Cardinality(FreeVisible) = 2 /\ cpu_num = 2
  /\ max_num_workers = Some(1)

\* C8: in explicit-devices mode the planned devices are distinct members of the
\* explicit list, of the visible-device restriction (when present) and of the
\* free set; with no cap they are all of that intersection; with a cap below its
\* size they are the first cap entries of the discovered list, in its order; and
\* the worker count is the length of the planned list.
C8_ExplicitDevices ==
  (Planned /\ ExplicitMode)
    => LET surviving == IF Val(visible_gpu) = {}
                        THEN Val(exp_config.use_multi_gpus) \cap free_gpus
                        ELSE Val(exp_config.use_multi_gpus) \cap Val(visible_gpu)
                               \cap free_gpus
           devices == Val(available_gpu)
       IN /\ Range(devices) \subseteq surviving
          /\ NoDup(devices)
          /\ Cap = None => Range(devices) = surviving
          /\ (Cap # None /\ Val(Cap) < Cardinality(surviving))
               => /\ Len(devices) = Val(Cap)
                  /\ devices = SubSeq(Val(found_gpu), 1, Val(Cap))
                  /\ Range(Val(found_gpu)) = surviving
          /\ max_num_workers = Some(Len(devices))

\* C8 witness: a visible-device restriction that drops an explicit device, and
\* a cap of 1 below the two survivors
C8_Witness ==
  /\ Planned /\ ExplicitMode
  /\ Val(visible_gpu) # {}
  /\ ~(Val(exp_config.use_multi_gpus) \subseteq Val(visible_gpu))
  /\ Cap = Some(1)
  /\ Len(Val(found_gpu)) = 2
  /\ Len(Val(available_gpu)) = 1

\* C9: in all-devices mode with a cap above the total device count, planning
\* fails only when no device is free (after the visible-device restriction),
\* never with the cap's ConfigError; a plan has max_num_workers = gpu_num and
\* all the free devices.
C9_CapAboveTotal ==
  (EnvRead /\ AllDevicesMode /\ Cap # None /\ Val(Cap) >= 1 /\ Val(Cap) > gpu_num)
    => /\ FreeVisible # {} => Planned
       /\ ~Planned => error = "ValueError"
       /\ Planned => /\ max_num_workers = Some(gpu_num)
                     /\ Range(Val(available_gpu)) = FreeVisible
                     /\ NoDup(Val(available_gpu))

\* C9 witness: cap 3 with 2 devices in total gives 2 workers
C9_Witness ==
  /\ Planned /\ AllDevicesMode
  /\ Cap = Some(3) /\ gpu_num = 2
  /\ max_num_workers = Some(2)

\* C10 as stated: in all-devices mode with a cap that does not exceed the total
\* device count, a plan has exactly cap devices and cap workers.
C10_ExactlyCap ==
  (Planned /\ AllDevicesMode /\ Cap # None /\ Val(Cap) <= gpu_num)
    => /\ Len(Val(available_gpu)) = Val(Cap)
       /\ max_num_workers = Cap

\* C10 amended: in all-devices mode with a cap that does not exceed the total
\* device count, a plan has at least one and at most cap devices, all of them
\* free (and visible, under a restriction), and as many workers as devices.
C10_AtMostCap ==
  (Planned /\ AllDevicesMode /\ Cap # None /\ Val(Cap) <= gpu_num)
    => /\ Len(Val(available_gpu)) >= 1
       /\ Len(Val(available_gpu)) <= Val(Cap)
       /\ Range(Val(available_gpu)) \subseteq FreeVisible
       /\ NoDup(Val(available_gpu))
       /\ max_num_workers = Some(Len(Val(available_gpu)))

\* C10 witness: a cap of 2 on a machine with devices enough, one device planned
C10_Witness ==
  /\ Planned /\ AllDevicesMode
  /\ Cap = Some(2) /\ gpu_num >= 2
  /\ Len(Val(available_gpu)) = 1
  /\ max_num_workers = Some(1)

CpuOnlyMode == multiprocessing /\ ~use_all_gpus /\ ~Truthy(exp_config.use_multi_gpus)

\* C11: in CPU-only mode (concurrency on, neither GPU strategy) a cap of at
\* least 1 never makes planning fail, however far above the CPU count it is;
\* the plan leaves the device list unset, and the pool is created with
\* min(cap, cpu count) workers, or with cpu count workers when there is no cap.
C11_CpuOnlyWorkers ==
  (EnvRead /\ CpuOnlyMode /\ (Cap = None \/ Val(Cap) >= 1))
    => /\ Planned
       /\ available_gpu = None
       /\ workers # << >>
            => Len(workers) = IF Cap = None THEN cpu_num
                              ELSE IF Val(Cap) < cpu_num THEN Val(Cap) ELSE cpu_num

\* C11 witness: a cap of 3 on a machine with one CPU, a pool of one worker
C11_Witness ==
  /\ CpuOnlyMode
  /\ Cap = Some(3) /\ cpu_num = 1
  /\ Len(workers) = 1
  /\ available_gpu = None

\* C12: every plan prepare_multiprocess returns with has a worker count of at
\* least 1, in every mode, and the pool of run() is never sized with a count
\* of 0 or below (Pool refuses one with ValueError at line 283).
C12_WorkersAtLeastOne ==
  Planned
    => /\ PoolSize >= 1
       /\ ~(pc = "run_failed" /\ raised_at = 283)

\* the sizes of the three splits of iterator.data as built and as rebuilt
TinyBuilt == iter_raw # None /\ iter_tiny # None

\* C13 as stated: the truncated splits have at most 10 (train), 5 (valid) and 5
\* (test) samples, a split below its ceiling is kept whole, and 'all' has the
\* samples of train, valid and test together.
C13_TinyCeilings ==
  TinyBuilt
    => LET raw == Val(iter_raw)
           tiny == Val(iter_tiny)
       IN /\ tiny["train"] <= 10 /\ tiny["valid"] <= 5 /\ tiny["test"] <= 5
          /\ raw["train"] < 10 => tiny["train"] = raw["train"]
          /\ raw["valid"] < 5 => tiny["valid"] = raw["valid"]
          /\ raw["test"] < 5 => tiny["test"] = raw["test"]
          /\ tiny["all"] = tiny["train"] + tiny["valid"] + tiny["test"]

\* C13 amended: a train split of at most 100 samples is kept whole and a larger
\* one is cut to 10; a valid or test split of at most 20 samples is kept whole
\* and a larger one is cut to 5; so the truncated splits have at most 100, 20
\* and 20 samples, and 'all' has the samples of train, valid and test together.
C13_TinyThresholds ==
  TinyBuilt
    => LET raw == Val(iter_raw)
           tiny == Val(iter_tiny)
       IN /\ tiny["train"] = IF raw["train"] > 100 THEN 10 ELSE raw["train"]
          /\ tiny["valid"] = IF raw["valid"] > 20 THEN 5 ELSE raw["valid"]
          /\ tiny["test"] = IF raw["test"] > 20 THEN 5 ELSE raw["test"]
          /\ tiny["train"] <= 100 /\ tiny["valid"] <= 20 /\ tiny["test"] <= 20
          /\ tiny["all"] = tiny["train"] + tiny["valid"] + tiny["test"]

\* C13 witness: 100 train samples kept whole, 21 valid samples cut to 5
C13_Witness ==
  /\ TinyBuilt
  /\ Val(iter_raw)["train"] = 100 /\ Val(iter_tiny)["train"] = 100
  /\ Val(iter_raw)["valid"] = 21 /\ Val(iter_tiny)["valid"] = 5
  /\ Val(iter_raw)["test"] = 20 /\ Val(iter_tiny)["test"] = 20
  /\ Val(iter_tiny)["all"] = 125

\* C14: the truncated sizes are those the truncation of lines 370-394 gives for
\* the raw sizes and for nothing else, and truncating the truncated splits once
\* more leaves every size as it is.
C14_TruncationIdempotent ==
  TinyBuilt
    => /\ Val(iter_tiny) = TinyData(Val(iter_raw))
       /\ TinyData(Val(iter_tiny)) = Val(iter_tiny)

\* C14 witness: every split is cut (101 -> 10, 26 -> 5, 21 -> 5), and the cut
\* splits are below the thresholds of a second truncation
C14_Witness ==
  /\ TinyBuilt
  /\ Val(iter_raw)["train"] = 101 /\ Val(iter_tiny)["train"] = 10
  /\ Val(iter_raw)["valid"] = 26 /\ Val(iter_tiny)["valid"] = 5
  /\ Val(iter_raw)["test"] = 21 /\ Val(iter_tiny)["test"] = 5

\* the device a pool worker's process is bound to (its CUDA_VISIBLE_DEVICES),
\* if it is bound to one
BoundTo(w) ==
  IF workers[w].env # None /\ Val(workers[w].env) # {} THEN workers[w].env ELSE None

\* C15: in parallel GPU mode no two workers execute trials on the same device
\* at the same time, and a worker bound to a device stays bound to that device
\* for as long as it lives.
C15_DevicePartition ==
  /\ [](TrialGpu
          => \A w1, w2 \in DOMAIN workers :
               (/\ workers[w1].task # None
                /\ workers[w2].task # None
                /\ workers[w1].env = workers[w2].env) => w1 = w2)
  /\ [][TrialGpu
          => \A w \in DOMAIN workers :
               BoundTo(w) # None => workers'[w].env = workers[w].env]_vars

\* the trials whose execution has begun
Started == IF multiprocessing THEN next_i ELSE generated

\* C16: in sequential and in parallel mode alike, as long as no trial of a run
\* of two or more configs has been scheduled, the generator has not yielded its
\* last config: the stream is never drawn whole before scheduling starts.
C16_LazyGenerator ==
  (pc \in { "loop", "pool" } /\ gen_len >= 2 /\ Started = 0)
    => generated < gen_len

\* C17: with no target metric declared, only the first trial of a run assigns
\* the target metric, trials that execute at the same time work with the same
\* target metric, and a target metric the parent's observer holds is never
\* replaced.
C17_TargetMetricFrozen ==
  /\ [](target_metric = None
          => /\ derived \subseteq { 0 }
             /\ \A w1, w2 \in DOMAIN workers :
                  (workers[w1].task # None /\ workers[w2].task # None)
                    => workers[w1].target = workers[w2].target)
  /\ [][obs_target # None => obs_target' = obs_target]_vars

\* a GPU strategy is requested: use_all_gpus, or a use_multi_gpus list
GpuModeSelected == use_all_gpus \/ exp_config.use_multi_gpus # None

\* C18: with concurrency on and a GPU strategy requested, the constructor either
\* fails or leaves a non-empty device list: it never returns with the CPU-only
\* plan (no device list) or with an empty list.
C18_NoCpuFallback ==
  (multiprocessing /\ GpuModeSelected /\ pc # "new")
    => \/ pc = "failed" /\ error # ""
       \/ available_gpu # None /\ Len(Val(available_gpu)) > 0

\* a structural check of test_dataset_reader_and_iterator has raised ConfigError
StructuralFailure == error = "ConfigError" /\ raised_at \in { 348, 353, 357, 362, 366 }

\* C19: the validation pass takes the trials one at a time in generation order;
\* once a structural check has raised ConfigError the constructor has failed
\* with it, no trial is read or trained any more, and no run is ever started.
C19_FailFast ==
  /\ [](StructuralFailure
          => /\ pc = "failed"
             /\ gen_len = 0 /\ generated = 0 /\ workers = << >> /\ log = << >>)
  /\ [][StructuralFailure => UNCHANGED << testVars, runVars, pc >>]_vars
  /\ [][test_i' # test_i
          => \/ pc = "train" /\ test_i' = test_i + 1
             \/ pc = "test" /\ test_i' = 0]_vars

\* C19 witness: the first of two trials fails the check at line 353; the second
\* is never read
C19_Witness ==
  /\ StructuralFailure /\ raised_at = 353
  /\ pc = "failed"
  /\ len_gen = 2 /\ test_i = 0

\* C20: run() reaches its final steps (full_time, save_best_pipe,
\* results_visualization) only when the generator is exhausted and every trial
\* has completed and written its record, in parallel mode with every task
\* taken, finished and collected and no worker busy; and the final steps happen
\* at most once: nothing follows them.
C20_FinalizeAfterAll ==
  /\ [](pc \in { "finish", "done" }
          => /\ generated = gen_len
             /\ Len(log) = gen_len
             /\ \A w \in DOMAIN workers : workers[w].task = None
             /\ multiprocessing
                  => next_i = gen_len /\ collected = gen_len /\ results = << >>)
  /\ [][pc' = "done" /\ pc # "done" => pc = "finish"]_vars
  /\ [][pc = "done" => pc' = "done"]_vars

\* C20 witness: a parallel run of two trials on two workers has been finalized
C20_Witness ==
  /\ pc = "done"
  /\ multiprocessing /\ Len(workers) = 2
  /\ gen_len = 2 /\ collected = 2 /\ Len(log) = 2

\* one of the three modes: not both GPU strategies at once (lines 113-114)
OneMode == ~(use_all_gpus /\ Truthy(exp_config.use_multi_gpus))

\* C21: with concurrency on and a cap below 1, in all-devices, explicit-devices
\* and CPU-only mode alike, the constructor fails with ConfigError, before any
\* device is looked for and with max_num_workers and available_gpu unset.
C21_CapBelowOne ==
  (multiprocessing /\ OneMode /\ Cap # None /\ Val(Cap) < 1 /\ pc # "new")
    => /\ pc = "failed"
       /\ error = "ConfigError"
       /\ found_gpu = None
       /\ max_num_workers = None
       /\ available_gpu = None

====
